---- MODULE Spec2Model ----
(***************************************************************************)
(* Deployment tracking function (zyptai/DeployFunction).                   *)
(*                                                                         *)
(* The RecordDeployment HTTP handler validates a JSON payload and writes   *)
(* up to five kinds of rows (Deployment, Customer, Environment, Resource,  *)
(* Endpoint) to a table store through TableHelper.  The repository holds   *)
(* several revisions of the handler; three are modelled, selected by rev:  *)
(*   "retry"  : src/unnamed/part_000 + src/functions/shared/tableHelper.js *)
(*   "plain"  : src/unnamed/part_002 + src/functions/shared/tableHelper.js *)
(*   "inline" : src/src/functions/RecordDeployment.js (helper in the file) *)
(*                                                                         *)
(* A store call is one atomic step of the store: it is applied or it       *)
(* fails, and a handler runs from one await to the next without            *)
(* interruption, so one action is one awaited adapter operation together   *)
(* with the synchronous code that follows it.                              *)
(***************************************************************************)
EXTENDS Integers, Sequences, FiniteSets, TLC

VARIABLES
    rev,        \* the revision of the handler that is deployed
    now,        \* the millisecond clock (Date.now())
    store,      \* table name -> (<<partitionKey, rowKey>> -> entity)
    tables,     \* the tables that exist in the store
    calls,      \* request -> the store calls it has issued, in order
    faults,     \* number of store calls the environment has made fail
    body,       \* request -> parsed JSON payload
    pc,         \* request -> position of its handler
    idx,        \* request -> position in the resources / endpoints loop
    attempt,    \* request -> loop variable i of retryOperation
    waits,      \* request -> delays (ms) slept by retryOperation, in order
    results,    \* request -> the handler's results object
    thrown,     \* request -> the error that reached the handler's catch
    response    \* request -> the HTTP response returned

vars == <<rev, now, store, tables, calls, faults, body, pc, idx, attempt,
          waits, results, thrown, response>>

----------------------------------------------------------------------------
(* Bounds of the model *)

MaxClock == 1    \* the clock ticks from 0 to MaxClock
MaxLen == 2      \* longest resources / endpoints array
MaxParts == 2    \* optional payload parts carried by all requests together
MaxFaults == 1   \* store calls the environment makes fail

(* Program constants *)

maxRetries == 3
delay == 1000

\* two requests are in flight
Reqs == {1, 2}

Revisions == {"retry", "plain", "inline"}

----------------------------------------------------------------------------
(* Attribute bags.  A bag is a function from attribute names to strings;   *)
(* an optional bag is a sequence of length 0 (absent) or 1.                *)

EmptyBag == [k \in {} |-> ""]

\* { ...a, ...b }: the later spread wins
Spread(a, b) ==
    [k \in (DOMAIN a) \cup (DOMAIN b) |-> IF k \in DOMAIN b THEN b[k] ELSE a[k]]

\* ...x of an absent (undefined) value spreads nothing
Opt(o) == IF Len(o) = 0 THEN EmptyBag ELSE o[1]

Has(bag, k) == k \in DOMAIN bag

\* `${n}` of a number
Str(n) == ToString(n)

\* new Date().toISOString()
Iso(n) == "T" \o ToString(n) \o "Z"

SeqsUpTo(S, n) == UNION {[1..k -> S] : k \in 0..n}

----------------------------------------------------------------------------
(* Payloads *)

DeploymentTypes == {"", "Upgrade"}
DeploymentBags ==
    {[note |-> "n"],
     [rowKey |-> "k7", timestamp |-> "old", deploymentType |-> "Hotfix"]}
CustomerBags == {[name |-> "a"], [name |-> "b"]}
EnvironmentBags == {[region |-> "r"]}
ResourceElems ==
    {[resourceType |-> "vm"], [resourceType |-> "db"],
     [resourceType |-> "vm", deploymentId |-> "d9"]}
EndpointElems ==
    {[serviceType |-> "api"], [serviceType |-> "web", partitionKey |-> "p9"]}

OptOf(S) == {<<>>} \cup {<<b>> : b \in S}

MkBody(p, c, e, dt, dd, cd, ed, rs, es) ==
    [parsed |-> TRUE, present |-> p, customerId |-> c, environmentId |-> e, deploymentType |-> dt,
     deploymentDetails |-> dd, customerDetails |-> cd, environmentDetails |-> ed,
     resources |-> rs, endpoints |-> es]

\* request.json() gave null
NullBody == MkBody(FALSE, "", "", "", <<>>, <<>>, <<>>, <<>>, <<>>)

\* the request has no body, or one that is not JSON: request.json() rejects
AbsentBody == [NullBody EXCEPT !.parsed = FALSE]

InvalidBodies ==
    {AbsentBody, NullBody,
     MkBody(TRUE, "", "e1", "", <<>>, <<[name |-> "a"]>>, <<>>, <<>>, <<>>),
     MkBody(TRUE, "c1", "", "", <<>>, <<>>, <<>>, <<>>, <<>>)}

\* an absent array and an empty array both skip their loop: both are <<>>
ValidBodies ==
    {MkBody(TRUE, "c1", "e1", dt, dd, cd, ed, rs, es) :
        dt \in DeploymentTypes, dd \in OptOf(DeploymentBags),
        cd \in OptOf(CustomerBags), ed \in OptOf(EnvironmentBags),
        rs \in SeqsUpTo(ResourceElems, MaxLen),
        es \in SeqsUpTo(EndpointElems, MaxLen)}

Parts(b) ==
    (IF b.deploymentType = "" THEN 0 ELSE 1) + Len(b.deploymentDetails)
    + Len(b.customerDetails) + Len(b.environmentDetails)
    + Len(b.resources) + Len(b.endpoints)

RECURSIVE SumParts(_, _)
SumParts(bs, S) ==
    IF S = {} THEN 0
    ELSE LET r == CHOOSE x \in S : TRUE IN Parts(bs[r]) + SumParts(bs, S \ {r})

Bodies == InvalidBodies \cup {b \in ValidBodies : Parts(b) <= MaxParts}

\* !body || !body.customerId || !body.environmentId
Invalid(b) == ~b.present \/ b.customerId = "" \/ b.environmentId = ""

----------------------------------------------------------------------------
(* Errors.  An error is a record of the properties the handlers read.      *)

MkError(n, c, s, m) == [name |-> n, code |-> c, statusCode |-> s, message |-> m]

NoError == MkError("", "", "", "")

\* failures of a store call that the environment can cause
SocketError == MkError("SocketException", "ECONNRESET", "", "socket hang up")
TimeoutError == MkError("TimeoutError", "ETIMEDOUT", "", "timed out")
AuthError == MkError("RestError", "AuthorizationFailure", "403", "not authorized")
StoreFaults == {SocketError, TimeoutError, AuthError}

\* what request.json() rejects with when the request carries no JSON
SyntaxError == MkError("SyntaxError", "", "", "Unexpected end of JSON input")

\* createEntity on a key that exists, createTable on a table that exists
ConflictError == MkError("RestError", "EntityAlreadyExists", "409", "already exists")
TableExistsError == MkError("RestError", "TableAlreadyExists", "409", "table exists")
NoTableError == MkError("RestError", "TableNotFound", "404", "table not found")

\* (variant) a helper that rethrows under the cause's message alone
WrapKeepMessage(kind, error) == MkError("Error", "", "", error.message)

\* new Error(`${Kind} operation failed: ${error.message}`)
Wrap(kind, error) ==
    MkError("Error", "", "", kind \o " operation failed: " \o error.message)

----------------------------------------------------------------------------
(* The table store *)

TableOf ==
    [Customer |-> "Customers", Environment |-> "CustomerEnvironments",
     Deployment |-> "DeploymentHistory", Resource |-> "DeployedResources",
     Endpoint |-> "IntegrationEndpoints"]

Kinds == DOMAIN TableOf
TableNames == {TableOf[k] : k \in Kinds}

KeyOf(entity) == <<entity.partitionKey, entity.rowKey>>

\* the record of one store call
Call(r, op, kind, entity, error) ==
    [req |-> r, op |-> op, kind |-> kind, table |-> TableOf[kind],
     entity |-> entity, ok |-> (error = NoError), error |-> error, at |-> now]

\* (variant) a createEntity that overwrites: it never answers 409
CreateEntityOverwrites(st, tbls, kind, entity, fault) ==
    IF fault # NoError THEN fault
    ELSE IF TableOf[kind] \notin tbls THEN NoTableError
    ELSE NoError

\* client.createEntity(entity): fails when the key exists
CreateEntityError(st, tbls, kind, entity, fault) ==
    IF fault # NoError THEN fault
    ELSE IF TableOf[kind] \notin tbls THEN NoTableError
    ELSE IF KeyOf(entity) \in DOMAIN st[TableOf[kind]] THEN ConflictError
    ELSE NoError

\* client.upsertEntity(entity, "Replace"): inserts or replaces
UpsertEntityError(st, tbls, kind, entity, fault) ==
    IF fault # NoError THEN fault
    ELSE IF TableOf[kind] \notin tbls THEN NoTableError
    ELSE NoError

\* the store after a write that succeeded
Written(st, kind, entity) ==
    [st EXCEPT ![TableOf[kind]] = (KeyOf(entity) :> entity) @@ @]

----------------------------------------------------------------------------
(* TableHelper: the entities it builds (the caller's data is spread last)  *)

CustomerEntity(data, t) ==
    Spread([partitionKey |-> data.customerId, rowKey |-> data.customerId,
            timestamp |-> Iso(t)], data)

EnvironmentEntity(data, t) ==
    Spread([partitionKey |-> data.customerId, rowKey |-> data.environmentId,
            timestamp |-> Iso(t)], data)

DeploymentEntity(data, t) ==
    Spread([partitionKey |-> data.customerId,
            rowKey |-> Str(t) \o "_" \o data.environmentId,
            timestamp |-> Iso(t), status |-> "InProgress"], data)

ResourceEntity(data, t) ==
    Spread([partitionKey |-> data.deploymentId,
            rowKey |-> data.resourceType \o "_" \o Str(t),
            timestamp |-> Iso(t), status |-> "Deployed"], data)

EndpointEntity(data, t) ==
    Spread([partitionKey |-> data.customerId,
            rowKey |-> data.serviceType \o "_" \o Str(t),
            timestamp |-> Iso(t), status |-> "Active"], data)

EntityOf(kind, data, t) ==
    CASE kind = "Customer" -> CustomerEntity(data, t)
      [] kind = "Environment" -> EnvironmentEntity(data, t)
      [] kind = "Deployment" -> DeploymentEntity(data, t)
      [] kind = "Resource" -> ResourceEntity(data, t)
      [] kind = "Endpoint" -> EndpointEntity(data, t)

\* what a put operation returns: the row key for a Deployment, true otherwise
ValueOf(kind, entity) == IF kind = "Deployment" THEN entity.rowKey ELSE "true"

\* the write shared/tableHelper.js issues for a kind
UpsertKinds == {"Customer", "Environment"}

WriteOp(kind) == IF kind \in UpsertKinds THEN "upsertEntity" ELSE "createEntity"

\* A fault is the failure the environment injects into one store call of an
\* operation: [error |-> ..., op |-> the call it hits]
NoFault == [error |-> NoError, op |-> ""]

FaultAt(fault, op) == IF fault.op = op THEN fault.error ELSE NoError

\* The outcome of one adapter operation
Outcome(cs, st, tbls, error, value) ==
    [calls |-> cs, store |-> st, tables |-> tbls, error |-> error, value |-> value]

\* shared/tableHelper.js create*: build the entity, one store call, wrap a failure
TableHelperPut(r, kind, data, fault) ==
    LET entity == EntityOf(kind, data, now)
        op == WriteOp(kind)
        error == IF op = "upsertEntity"
                 THEN UpsertEntityError(store, tables, kind, entity, FaultAt(fault, "write"))
                 ELSE CreateEntityError(store, tables, kind, entity, FaultAt(fault, "write"))
        call == Call(r, op, kind, entity, error)
    IN  IF error = NoError
        THEN Outcome(<<call>>, Written(store, kind, entity), tables, NoError,
                     ValueOf(kind, entity))
        ELSE Outcome(<<call>>, store, tables, Wrap(kind, error), "")

\* RecordDeployment.js ensureTableExists: createTable, 409 counts as success
EnsureTableError(tbls, kind, fault) ==
    LET error == IF fault # NoError THEN fault
                 ELSE IF TableOf[kind] \in tbls THEN TableExistsError
                 ELSE NoError
    IN  IF error.statusCode = "409" THEN NoError ELSE error

\* the error createTable itself answered with
CreateTableError(tbls, kind, fault) ==
    IF fault # NoError THEN fault
    ELSE IF TableOf[kind] \in tbls THEN TableExistsError
    ELSE NoError

\* RecordDeployment.js testTableAccess: listEntities top 1, any failure is false
TestTableError(tbls, kind, fault) ==
    IF fault # NoError THEN fault
    ELSE IF TableOf[kind] \notin tbls THEN NoTableError
    ELSE NoError

NoEntity == EmptyBag

\* RecordDeployment.js create*: ensureTableExists, testTableAccess, createEntity;
\* every failure is logged and rethrown as it is
InlineHelperPut(r, kind, data, fault) ==
    LET made == CreateTableError(tables, kind, FaultAt(fault, "createTable"))
        ensured == EnsureTableError(tables, kind, FaultAt(fault, "createTable"))
        tbls1 == IF made = NoError THEN tables \cup {TableOf[kind]} ELSE tables
        c1 == Call(r, "createTable", kind, NoEntity, made)
        access == TestTableError(tbls1, kind, FaultAt(fault, "listEntities"))
        c2 == Call(r, "listEntities", kind, NoEntity, access)
        entity == EntityOf(kind, data, now)
        error == CreateEntityError(store, tbls1, kind, entity, FaultAt(fault, "write"))
        c3 == Call(r, "createEntity", kind, entity, error)
    IN  IF ensured # NoError
        THEN Outcome(<<c1>>, store, tbls1, ensured, "")
        ELSE IF access # NoError
        THEN Outcome(<<c1, c2>>, store, tbls1,
                     MkError("Error", "", "", "No access to table " \o TableOf[kind]), "")
        ELSE IF error # NoError
        THEN Outcome(<<c1, c2, c3>>, store, tbls1, error, "")
        ELSE Outcome(<<c1, c2, c3>>, Written(store, kind, entity), tbls1, NoError,
                     ValueOf(kind, entity))

Put(r, kind, data, fault) ==
    IF rev = "inline" THEN InlineHelperPut(r, kind, data, fault)
    ELSE TableHelperPut(r, kind, data, fault)

\* The faults the environment may inject into one operation: any store
\* failure of its write and, where the helper provisions and probes the table
\* first, a refusal of either of those calls
Faults ==
    {NoFault} \cup
    (IF faults < MaxFaults
     THEN {[error |-> e, op |-> "write"] : e \in StoreFaults} \cup
          (IF rev = "inline"
           THEN {[error |-> AuthError, op |-> o] : o \in {"createTable", "listEntities"}}
           ELSE {})
     ELSE {})

----------------------------------------------------------------------------
(* The handler: the data it passes to each put operation *)

DeploymentData(b) ==
    Spread([customerId |-> b.customerId, environmentId |-> b.environmentId,
            deploymentType |-> IF b.deploymentType = "" THEN "Initial"
                               ELSE b.deploymentType],
           Opt(b.deploymentDetails))

CustomerData(b) == Spread([customerId |-> b.customerId], Opt(b.customerDetails))

EnvironmentData(b) ==
    Spread([customerId |-> b.customerId, environmentId |-> b.environmentId],
           Opt(b.environmentDetails))

ResourceData(b, deployment, k) ==
    Spread([deploymentId |-> deployment, customerId |-> b.customerId], b.resources[k])

EndpointData(b, k) == Spread([customerId |-> b.customerId], b.endpoints[k])

\* results as the handler initialises it; "null" is the null deployment key
NullKey == "null"

NewResults ==
    [deployment |-> NullKey, customer |-> FALSE, environment |-> FALSE,
     resources |-> <<>>, endpoints |-> <<>>]

\* (variant) results that collect the types newest first
CollectReversed(res, kind, value, item) ==
    CASE kind = "Deployment" -> [res EXCEPT !.deployment = value]
      [] kind = "Customer" -> [res EXCEPT !.customer = (value = "true")]
      [] kind = "Environment" -> [res EXCEPT !.environment = (value = "true")]
      [] kind = "Resource" -> [res EXCEPT !.resources = <<item.resourceType>> \o @]
      [] kind = "Endpoint" -> [res EXCEPT !.endpoints = <<item.serviceType>> \o @]

\* what a successful put of a kind does to results
\* (variant) a loop body that pushes the type before and after the write
CollectTwice(res, kind, value, item) ==
    CASE kind = "Deployment" -> [res EXCEPT !.deployment = value]
      [] kind = "Customer" -> [res EXCEPT !.customer = (value = "true")]
      [] kind = "Environment" -> [res EXCEPT !.environment = (value = "true")]
      [] kind = "Resource" ->
            [res EXCEPT !.resources = Append(Append(@, item.resourceType), item.resourceType)]
      [] kind = "Endpoint" ->
            [res EXCEPT !.endpoints = Append(Append(@, item.serviceType), item.serviceType)]

Collect(res, kind, value, item) ==
    CASE kind = "Deployment" -> [res EXCEPT !.deployment = value]
      [] kind = "Customer" -> [res EXCEPT !.customer = (value = "true")]
      [] kind = "Environment" -> [res EXCEPT !.environment = (value = "true")]
      [] kind = "Resource" -> [res EXCEPT !.resources = Append(@, item.resourceType)]
      [] kind = "Endpoint" -> [res EXCEPT !.endpoints = Append(@, item.serviceType)]

\* The position of the handler after the synchronous code that follows a step:
\* <<pc, idx>> of the next awaited put, or "done"
AfterEndpoints(b) == <<"done", 0>>

\* (variant) a handler that answers without writing the endpoints
AfterResourcesSkipEndpoints(b) == AfterEndpoints(b)

AfterResources(b) ==
    IF Len(b.endpoints) > 0 THEN <<"endpoints", 1>> ELSE AfterEndpoints(b)

AfterEnvironment(b) ==
    IF Len(b.resources) > 0 THEN <<"resources", 1>> ELSE AfterResources(b)

\* (variant) a handler that never writes the Environment
AfterCustomerSkipEnvironment(b) == AfterEnvironment(b)

AfterCustomer(b) ==
    IF Len(b.environmentDetails) > 0 THEN <<"environment", 0>> ELSE AfterEnvironment(b)

\* (variant) a handler that writes the Customer whether or not details came
AfterDeploymentAlwaysCustomer(b) == <<"customer", 0>>

AfterDeployment(b) ==
    IF Len(b.customerDetails) > 0 THEN <<"customer", 0>> ELSE AfterCustomer(b)

\* (variant) a handler that writes the Environment before the Customer
AfterEnvironmentFirst(b, kind, k) ==
    CASE kind = "Deployment" ->
            IF Len(b.environmentDetails) > 0 THEN <<"environment", 0>>
            ELSE IF Len(b.customerDetails) > 0 THEN <<"customer", 0>>
            ELSE AfterEnvironment(b)
      [] kind = "Environment" ->
            IF Len(b.customerDetails) > 0 THEN <<"customer", 0>>
            ELSE AfterEnvironment(b)
      [] kind = "Customer" -> AfterEnvironment(b)
      [] kind = "Resource" ->
            IF k < Len(b.resources) THEN <<"resources", k + 1>> ELSE AfterResources(b)
      [] kind = "Endpoint" ->
            IF k < Len(b.endpoints) THEN <<"endpoints", k + 1>> ELSE AfterEndpoints(b)

After(b, kind, k) ==
    CASE kind = "Deployment" -> AfterDeployment(b)
      [] kind = "Customer" -> AfterCustomer(b)
      [] kind = "Environment" -> AfterEnvironment(b)
      [] kind = "Resource" ->
            IF k < Len(b.resources) THEN <<"resources", k + 1>> ELSE AfterResources(b)
      [] kind = "Endpoint" ->
            IF k < Len(b.endpoints) THEN <<"endpoints", k + 1>> ELSE AfterEndpoints(b)

----------------------------------------------------------------------------
(* retryOperation (part_000) *)

TransientNames == {"SocketException", "TimeoutError"}

\* (variant) a retryOperation that sleeps and goes round after any error
RetryDecisionAnyError(i, error) ==
    IF i = maxRetries - 1 THEN "throw" ELSE "wait"

\* what the catch of attempt i does with the error: "throw" or "wait"
RetryDecision(i, error) ==
    IF i = maxRetries - 1 THEN "throw"
    ELSE IF error.name \in TransientNames THEN "wait"
    ELSE "throw"

\* (variant) a backoff that does not grow
RetryDelayFixed(i) == delay

\* delay * Math.pow(2, i)
RetryDelay(i) == delay * (2 ^ i)

\* only the "retry" revision wraps its puts in retryOperation
Decision(i, error) == IF rev = "retry" THEN RetryDecision(i, error) ELSE "throw"

----------------------------------------------------------------------------
(* Responses *)

TryAgain == "Network connectivity issue detected. Please try again."
ContactSupport ==
    "An unexpected error occurred. Please contact support if the issue persists."

MkResponse(status, error, message, code, retryable, action, res, fields) ==
    [status |-> status, error |-> error, message |-> message, code |-> code,
     isRetryable |-> retryable, recommendedAction |-> action, results |-> res,
     fields |-> fields]

NoResponse == MkResponse(0, "", "", "", FALSE, "", NewResults, {})

BadRequest ==
    MkResponse(400, "Please provide customerId and environmentId in the request body",
               "", "", FALSE, "", NewResults, {"error"})

OkResponse(res) ==
    MkResponse(200, "", "", "", FALSE, "", res, {"success", "results", "executionTime"})

\* the catch of part_000
RetryErrorResponse(error) ==
    MkResponse(IF error.code = "ETIMEDOUT" THEN 408 ELSE 500,
               "Operation failed", error.message, error.code,
               error.name \in TransientNames,
               IF error.name = "SocketException" THEN TryAgain ELSE ContactSupport,
               NewResults,
               {"error", "message", "type", "code", "isRetryable", "recommendedAction"})

\* the catch of part_002 and of RecordDeployment.js
PlainErrorResponse(error) ==
    MkResponse(500, "Operation failed", error.message, "", FALSE, "", NewResults,
               {"error", "message", "stack", "type"})

ErrorResponse(error) ==
    IF rev = "retry" THEN RetryErrorResponse(error) ELSE PlainErrorResponse(error)

\* (variant) a catch that swallows the error and lets the handler go on
CatchAndContinue(r, st, error, next) ==
    [store |-> st, response |-> ErrorResponse(error), next |-> next]

\* (variant) a catch that compensates: it deletes the rows the request wrote
CatchAndRollBack(r, st, error, next) ==
    [store |->
        [t \in TableNames |->
            LET mine == {KeyOf(calls[r][i].entity) :
                            i \in {j \in 1..Len(calls[r]) :
                                      /\ calls[r][j].ok
                                      /\ calls[r][j].table = t
                                      /\ calls[r][j].op \in {"createEntity", "upsertEntity"}}}
            IN  [key \in (DOMAIN st[t]) \ mine |-> st[t][key]]],
     response |-> ErrorResponse(error), next |-> <<"done", 0>>]

\* (variant) a catch that lets the error escape: the handler gives no response
CatchAndRethrow(r, st, error, next) ==
    [store |-> st, response |-> NoResponse, next |-> <<"done", 0>>]

\* The handler's only catch: it logs and answers.  It issues no store call
\* (the store stays as the failed step left it) and ends the handler, so no
\* step after the failed one runs: <<pc, idx>> is <<"done", 0>>.
Catch(r, st, error, next) ==
    [store |-> st, response |-> ErrorResponse(error), next |-> <<"done", 0>>]

----------------------------------------------------------------------------
(* The state after the function app has started and the requests arrived   *)

EmptyStore == [t \in TableNames |-> <<>>]

Init ==
    /\ rev \in Revisions
    /\ now = 0
    /\ store = EmptyStore
    /\ tables = IF rev = "inline" THEN {} ELSE TableNames
    /\ calls = [r \in Reqs |-> <<>>]
    /\ faults = 0
    /\ body \in {bs \in [Reqs -> Bodies] :
                    /\ SumParts(bs, Reqs) <= MaxParts
                    /\ Parts(bs[1]) >= Parts(bs[2])}
    /\ pc = [r \in Reqs |-> "start"]
    /\ idx = [r \in Reqs |-> 0]
    /\ attempt = [r \in Reqs |-> 0]
    /\ waits = [r \in Reqs |-> <<>>]
    /\ results = [r \in Reqs |-> NewResults]
    /\ thrown = [r \in Reqs |-> NoError]
    /\ response = [r \in Reqs |-> NoResponse]

----------------------------------------------------------------------------
(* Actions *)

\* the clock advances
Tick ==
    /\ now < MaxClock
    /\ now' = now + 1
    /\ UNCHANGED <<rev, store, tables, calls, faults, body, pc, idx, attempt,
                   waits, results, thrown, response>>

\* RecordDeployment.js, before the first put: testTableAccess on every table
\* in the order of Object.entries(tables); it answers false for a table it
\* cannot read (here: one that does not exist) and the handler ignores the
\* answers.  The reads change nothing, so they run with the validation.
ProbeOrder == <<"Customer", "Environment", "Deployment", "Resource", "Endpoint">>

ProbeCalls(r) ==
    [i \in 1..Len(ProbeOrder) |->
        Call(r, "listEntities", ProbeOrder[i], NoEntity,
             TestTableError(tables, ProbeOrder[i], NoError))]

\* await request.json(), then the validation and the set-up up to the first
\* put.  request.json() is awaited inside the handler's try: when it rejects,
\* the catch answers.
Validate(r) ==
    /\ pc[r] = "start"
    /\ IF ~body[r].parsed
       THEN /\ thrown' = [thrown EXCEPT ![r] = SyntaxError]
            /\ response' = [response EXCEPT ![r] =
                    Catch(r, store, SyntaxError, <<"done", 0>>).response]
            /\ pc' = [pc EXCEPT ![r] = "done"]
            /\ UNCHANGED calls
       ELSE IF Invalid(body[r])
       THEN /\ response' = [response EXCEPT ![r] = BadRequest]
            /\ pc' = [pc EXCEPT ![r] = "done"]
            /\ UNCHANGED <<calls, thrown>>
       ELSE /\ pc' = [pc EXCEPT ![r] = "deployment"]
            /\ calls' = [calls EXCEPT ![r] =
                    IF rev = "inline" THEN @ \o ProbeCalls(r) ELSE @]
            /\ UNCHANGED <<response, thrown>>
    /\ UNCHANGED <<rev, now, store, tables, faults, body, idx, attempt,
                   waits, results>>

\* One awaited put of the handler (one attempt of it under retryOperation),
\* with what the handler does until its next await: collect the result and
\* go on, sleep before the next attempt, or answer from the catch.
Attempt(r, kind, data, item, k) ==
    \E fault \in Faults :
        LET out == Put(r, kind, data, fault)
            decision == Decision(attempt[r], out.error)
            next == After(body[r], kind, k)
            res == Collect(results[r], kind, out.value, item)
            caught == Catch(r, out.store, out.error, next)
        IN  /\ store' = IF out.error # NoError /\ decision = "throw"
                        THEN caught.store ELSE out.store
            /\ tables' = out.tables
            /\ calls' = [calls EXCEPT ![r] = @ \o out.calls]
            /\ faults' = faults + (IF fault = NoFault THEN 0 ELSE 1)
            /\ IF out.error = NoError
               THEN /\ results' = [results EXCEPT ![r] = res]
                    /\ attempt' = [attempt EXCEPT ![r] = 0]
                    /\ pc' = [pc EXCEPT ![r] = next[1]]
                    /\ idx' = [idx EXCEPT ![r] = next[2]]
                    /\ response' = [response EXCEPT ![r] =
                            IF next[1] = "done" THEN OkResponse(res) ELSE @]
                    /\ UNCHANGED <<now, waits, thrown>>
               ELSE IF decision = "wait"
               THEN /\ attempt' = [attempt EXCEPT ![r] = @ + 1]
                    /\ waits' = [waits EXCEPT ![r] = Append(@, RetryDelay(attempt[r]))]
                    /\ now' = now + RetryDelay(attempt[r])
                    /\ UNCHANGED <<pc, idx, results, thrown, response>>
               ELSE /\ thrown' = [thrown EXCEPT ![r] = out.error]
                    /\ response' = [response EXCEPT ![r] = caught.response]
                    /\ pc' = [pc EXCEPT ![r] = caught.next[1]]
                    /\ idx' = [idx EXCEPT ![r] = caught.next[2]]
                    /\ UNCHANGED <<now, attempt, waits, results>>
            /\ UNCHANGED <<rev, body>>

DeploymentStep(r) ==
    /\ pc[r] = "deployment"
    /\ Attempt(r, "Deployment", DeploymentData(body[r]), EmptyBag, 0)

CustomerStep(r) ==
    /\ pc[r] = "customer"
    /\ Attempt(r, "Customer", CustomerData(body[r]), EmptyBag, 0)

EnvironmentStep(r) ==
    /\ pc[r] = "environment"
    /\ Attempt(r, "Environment", EnvironmentData(body[r]), EmptyBag, 0)

ResourceStep(r) ==
    /\ pc[r] = "resources"
    /\ Attempt(r, "Resource",
               ResourceData(body[r], results[r].deployment, idx[r]),
               body[r].resources[idx[r]], idx[r])

EndpointStep(r) ==
    /\ pc[r] = "endpoints"
    /\ Attempt(r, "Endpoint", EndpointData(body[r], idx[r]),
               body[r].endpoints[idx[r]], idx[r])

Next ==
    \/ Tick
    \/ \E r \in Reqs : Validate(r)
    \/ \E r \in Reqs : DeploymentStep(r)
    \/ \E r \in Reqs : CustomerStep(r)
    \/ \E r \in Reqs : EnvironmentStep(r)
    \/ \E r \in Reqs : ResourceStep(r)
    \/ \E r \in Reqs : EndpointStep(r)

Spec == Init /\ [][Next]_vars

\* what one request does next
Step(r) ==
    \/ Validate(r)
    \/ DeploymentStep(r)
    \/ CustomerStep(r)
    \/ EnvironmentStep(r)
    \/ ResourceStep(r)
    \/ EndpointStep(r)

\* The event loop resumes a handler whenever the call or the timer it awaits
\* has settled, and every store call settles (it returns or it rejects): a
\* request that can take its next step eventually takes it.
\* Termination is checked for a request with any payload running beside a
\* second request that is turned away (no body, or a null body): no step of
\* a request waits for another request.
InitLive == Init /\ body[2] \in {AbsentBody, NullBody}

SpecLive == InitLive /\ [][Next]_vars /\ \A r \in Reqs : WF_vars(Step(r))

----------------------------------------------------------------------------
(* retryOperation on its own: it is applied to an operation of which every  *)
(* invocation returns or throws any error, named transient or not.          *)

OperationErrors == StoreFaults \cup {ConflictError}

\* the record of one invocation of the operation
Invocation(r, error) ==
    [req |-> r, op |-> "operation", kind |-> "", table |-> "", entity |-> NoEntity,
     ok |-> (error = NoError), error |-> error, at |-> now]

InitRetry ==
    /\ rev = "retry"
    /\ now = 0
    /\ store = EmptyStore
    /\ tables = TableNames
    /\ calls = [r \in Reqs |-> <<>>]
    /\ faults = 0
    /\ body = [r \in Reqs |-> NullBody]
    /\ pc = [r \in Reqs |-> "retrying"]
    /\ idx = [r \in Reqs |-> 0]
    /\ attempt = [r \in Reqs |-> 0]
    /\ waits = [r \in Reqs |-> <<>>]
    /\ results = [r \in Reqs |-> NewResults]
    /\ thrown = [r \in Reqs |-> NoError]
    /\ response = [r \in Reqs |-> NoResponse]

\* one pass of the for loop of retryOperation: invoke the operation; return its
\* result, or sleep and go round again, or throw what it threw
RetryPass(r) ==
    /\ pc[r] = "retrying"
    /\ attempt[r] < maxRetries
    /\ \E error \in {NoError} \cup OperationErrors :
          /\ calls' = [calls EXCEPT ![r] = Append(@, Invocation(r, error))]
          /\ IF error = NoError
             THEN /\ pc' = [pc EXCEPT ![r] = "returned"]
                  /\ UNCHANGED <<now, attempt, waits, thrown>>
             ELSE IF RetryDecision(attempt[r], error) = "wait"
             THEN /\ attempt' = [attempt EXCEPT ![r] = @ + 1]
                  /\ waits' = [waits EXCEPT ![r] = Append(@, RetryDelay(attempt[r]))]
                  /\ now' = now + RetryDelay(attempt[r])
                  /\ UNCHANGED <<pc, thrown>>
             ELSE /\ thrown' = [thrown EXCEPT ![r] = error]
                  /\ pc' = [pc EXCEPT ![r] = "threw"]
                  /\ UNCHANGED <<now, attempt, waits>>
    /\ UNCHANGED <<rev, store, tables, faults, body, idx, results, response>>

NextRetry == \E r \in Reqs : RetryPass(r)

SpecRetry == InitRetry /\ [][NextRetry]_vars

----------------------------------------------------------------------------
(* The catch of part_000 on its own: it is handed any error a store call,  *)
(* a helper or request.json() can throw, rewrapped or not.                  *)

CaughtErrors ==
    StoreFaults \cup {ConflictError, NoTableError, SyntaxError}
    \cup {Wrap(kind, error) : kind \in Kinds, error \in StoreFaults \cup {ConflictError}}

InitCatch ==
    /\ rev = "retry"
    /\ now = 0
    /\ store = EmptyStore
    /\ tables = TableNames
    /\ calls = [r \in Reqs |-> <<>>]
    /\ faults = 0
    /\ body = [r \in Reqs |-> NullBody]
    /\ pc = [r \in Reqs |-> "catching"]
    /\ idx = [r \in Reqs |-> 0]
    /\ attempt = [r \in Reqs |-> 0]
    /\ waits = [r \in Reqs |-> <<>>]
    /\ results = [r \in Reqs |-> NewResults]
    /\ thrown = [r \in Reqs |-> NoError]
    /\ response = [r \in Reqs |-> NoResponse]

\* the catch block: it answers from the error it is handed
CatchError(r) ==
    /\ pc[r] = "catching"
    /\ \E error \in CaughtErrors :
          /\ thrown' = [thrown EXCEPT ![r] = error]
          /\ response' = [response EXCEPT ![r] =
                  Catch(r, store, error, <<"done", 0>>).response]
    /\ pc' = [pc EXCEPT ![r] = "done"]
    /\ UNCHANGED <<rev, now, store, tables, calls, faults, body, idx, attempt,
                   waits, results>>

NextCatch == \E r \in Reqs : CatchError(r)

SpecCatch == InitCatch /\ [][NextCatch]_vars

----------------------------------------------------------------------------
(* Properties *)

IsWrite(c) == c.op \in {"createEntity", "upsertEntity"}

\* the positions in calls[r] of the writes, and of those that succeeded
WriteIdx(r) == {i \in 1..Len(calls[r]) : IsWrite(calls[r][i])}
OkWriteIdx(r) == {i \in WriteIdx(r) : calls[r][i].ok}
OkWritesOf(r, kind) == {i \in OkWriteIdx(r) : calls[r][i].kind = kind}

\* the row a successful write stored is in its table
Stored(c) ==
    /\ KeyOf(c.entity) \in DOMAIN store[c.table]
    /\ store[c.table][KeyOf(c.entity)] = c.entity

MissingRequired(b) ==
    ~b.parsed \/ ~b.present \/ b.customerId = "" \/ b.environmentId = ""

BadRequestText == "Please provide customerId and environmentId in the request body"

\* C1 (as claimed): a request whose body is absent or lacks customerId or
\* environmentId issues no store call of any kind and is answered 400 with
\* the 'Please provide customerId and environmentId' error.
C1_Claim ==
    \A r \in Reqs :
        MissingRequired(body[r]) =>
            /\ calls[r] = <<>>
            /\ pc[r] \in {"start", "done"}
            /\ pc[r] = "done" =>
                  /\ response[r].status = 400
                  /\ response[r].error = BadRequestText

OnlyIds(b) ==
    /\ ~MissingRequired(b)
    /\ b.deploymentType = ""
    /\ Len(b.deploymentDetails) = 0 /\ Len(b.customerDetails) = 0
    /\ Len(b.environmentDetails) = 0
    /\ Len(b.resources) = 0 /\ Len(b.endpoints) = 0

\* C2: a completed request whose payload carries only customerId and
\* environmentId has written exactly one row, a Deployment row, which is in
\* the store, and has attempted no write of any other kind.
C2_OnlyDeploymentForMinimalPayload ==
    \A r \in Reqs :
        (OnlyIds(body[r]) /\ response[r].status = 200) =>
            /\ Cardinality(OkWriteIdx(r)) = 1
            /\ \A i \in WriteIdx(r) : calls[r][i].kind = "Deployment"
            /\ \A i \in OkWriteIdx(r) : Stored(calls[r][i])

\* a minimal payload completed under the revision that wraps its writes in
\* retryOperation
C2_Witness ==
    \E r \in Reqs :
        /\ OnlyIds(body[r]) /\ response[r].status = 200 /\ rev = "retry"
        /\ Cardinality(DOMAIN store["DeploymentHistory"]) >= 1

Rank(kind) ==
    CASE kind = "Deployment" -> 1
      [] kind = "Customer" -> 2
      [] kind = "Environment" -> 3
      [] kind = "Resource" -> 4
      [] kind = "Endpoint" -> 5

\* the array position a Resource / Endpoint write at call i is for: one more
\* than the writes of its kind that succeeded before it
Position(r, i) ==
    1 + Cardinality({j \in OkWritesOf(r, calls[r][i].kind) : j < i})

\* C3: the writes of one request are issued in the order Deployment, Customer,
\* Environment, Resources in array order, Endpoints in array order; a write
\* that failed is followed by nothing but a retry of itself; and no write of
\* another kind is issued before the Deployment write has succeeded, the
\* Resource writes carrying the key it returned.
C3_WriteOrder ==
    \A r \in Reqs :
        \A j \in WriteIdx(r) :
            LET cj == calls[r][j] IN
            /\ \A i \in WriteIdx(r) :
                  i < j =>
                      LET ci == calls[r][i] IN
                      /\ Rank(ci.kind) <= Rank(cj.kind)
                      /\ (ci.ok /\ Rank(ci.kind) <= 3) => Rank(ci.kind) < Rank(cj.kind)
                      /\ ~ci.ok => (cj.kind = ci.kind /\ Position(r, j) = Position(r, i))
            /\ cj.kind = "Resource" =>
                  /\ Position(r, j) <= Len(body[r].resources)
                  /\ cj.entity.resourceType =
                        body[r].resources[Position(r, j)].resourceType
            /\ cj.kind = "Endpoint" =>
                  /\ Position(r, j) <= Len(body[r].endpoints)
                  /\ cj.entity.serviceType =
                        body[r].endpoints[Position(r, j)].serviceType
            /\ cj.kind # "Deployment" =>
                  \E i \in OkWritesOf(r, "Deployment") :
                      /\ i < j
                      /\ results[r].deployment = calls[r][i].entity.rowKey

\* a request completed after writing a Customer and an Environment after
\* its Deployment
C3_Witness ==
    \E r \in Reqs :
        /\ response[r].status = 200
        /\ OkWritesOf(r, "Customer") # {} /\ OkWritesOf(r, "Environment") # {}

\* C4 (as claimed): a successful request with N resources has added N rows to
\* the resources table, each with partition key and deploymentId equal to the
\* row key of the Deployment row this request wrote, whatever the elements carry.
C4_Claim ==
    \A r \in Reqs :
        response[r].status = 200 =>
            /\ Cardinality(OkWritesOf(r, "Resource")) = Len(body[r].resources)
            /\ \A i \in OkWritesOf(r, "Resource") :
                  /\ Stored(calls[r][i])
                  /\ \A d \in OkWritesOf(r, "Deployment") :
                        /\ calls[r][i].entity.partitionKey = calls[r][d].entity.rowKey
                        /\ calls[r][i].entity.deploymentId = calls[r][d].entity.rowKey

TypesOf(items, field) == [k \in 1..Len(items) |-> items[k][field]]

C6_Claim ==
    \A r \in Reqs, q \in Reqs :
        \A i \in WriteIdx(r), j \in WriteIdx(q) :
            LET ci == calls[r][i]
                cj == calls[q][j]
            IN  ( /\ r # q
                  /\ OnlyIds(body[r]) /\ OnlyIds(body[q])
                  /\ body[r].customerId = body[q].customerId
                  /\ body[r].environmentId = body[q].environmentId
                  /\ ci.kind = "Deployment" /\ cj.kind = "Deployment"
                  /\ ci.at = cj.at
                  /\ ci.error \notin StoreFaults /\ cj.error \notin StoreFaults )
                => /\ ci.ok /\ cj.ok
                   /\ KeyOf(ci.entity) # KeyOf(cj.entity)

RowsFor(table, partition) == {key \in DOMAIN store[table] : key[1] = partition}

\* C7 (as claimed): Customer and Environment writes are replace-upserts: each
\* one that no store fault hits succeeds, whatever the table already holds;
\* the Customers table holds at most one row per customerId and
\* CustomerEnvironments at most one per (customerId, environmentId); and each
\* such row is the entity of one request's write, not a merge.
C7_Claim ==
    /\ \A r \in Reqs : \A i \in WriteIdx(r) :
          ( /\ calls[r][i].kind \in {"Customer", "Environment"}
            /\ calls[r][i].error \notin StoreFaults )
          => calls[r][i].ok
    /\ \A r \in Reqs :
          /\ Cardinality(RowsFor("Customers", body[r].customerId)) <= 1
          /\ Cardinality({key \in RowsFor("CustomerEnvironments", body[r].customerId) :
                            key[2] = body[r].environmentId}) <= 1
    /\ \A t \in {"Customers", "CustomerEnvironments"} :
          \A key \in DOMAIN store[t] :
              \E r \in Reqs : \E i \in OkWriteIdx(r) : store[t][key] = calls[r][i].entity

\* the calls of a put that made the put fail: a write that failed, a table
\* probe that failed, a provisioning refused with anything but 409
PutFailedIdx(r) ==
    {i \in 1..Len(calls[r]) :
        /\ ~calls[r][i].ok
        /\ \/ IsWrite(calls[r][i])
           \/ calls[r][i].op = "createTable" /\ calls[r][i].error.statusCode # "409"
           \/ /\ calls[r][i].op = "listEntities"
              /\ \E j \in 1..Len(calls[r]) : j < i /\ calls[r][j].op = "createTable"}

\* the records the payload asks for
Requested(b) ==
    1 + Len(b.customerDetails) + Len(b.environmentDetails)
    + Len(b.resources) + Len(b.endpoints)

\* C8: once the failure of a put has reached the handler's catch the request
\* is over: its last store call is the one that failed, no write of it
\* succeeded after a failed put, fewer records are written than the payload asks for, and the
\* answer is 500 or 408, never 200.
C8_AbortOnFirstFailure ==
    \A r \in Reqs :
        (thrown[r] # NoError /\ body[r].parsed) =>
            /\ pc[r] = "done"
            /\ response[r].status \in {500, 408}
            /\ response[r].error = "Operation failed"
            /\ calls[r] # <<>>
            /\ Len(calls[r]) \in PutFailedIdx(r)
            /\ \A i \in PutFailedIdx(r) : \A j \in OkWriteIdx(r) : j < i
            /\ Cardinality(OkWriteIdx(r)) < Requested(body[r])

\* a request failed at its third record, after two writes that succeeded
C8_Witness ==
    \E r \in Reqs :
        /\ thrown[r] # NoError
        /\ Cardinality(OkWriteIdx(r)) = 2
        /\ Requested(body[r]) = 3

\* C9: a request that failed has rolled nothing back: every row it wrote is
\* still in its table (as written, unless it is an upsert row that another
\* request's upsert has replaced), and the store holds exactly the rows that
\* the successful writes of all requests put there.
C9_NoRollback ==
    /\ \A r \in Reqs :
          thrown[r] # NoError =>
              \A i \in OkWriteIdx(r) :
                  LET c == calls[r][i] IN
                  /\ KeyOf(c.entity) \in DOMAIN store[c.table]
                  /\ \/ store[c.table][KeyOf(c.entity)] = c.entity
                     \/ /\ c.op = "upsertEntity"
                        /\ \E q \in Reqs \ {r} : \E j \in OkWriteIdx(q) :
                              /\ calls[q][j].op = "upsertEntity"
                              /\ calls[q][j].table = c.table
                              /\ store[c.table][KeyOf(c.entity)] = calls[q][j].entity
    /\ \A t \in TableNames :
          DOMAIN store[t] =
              UNION {{KeyOf(calls[r][i].entity) :
                          i \in {j \in OkWriteIdx(r) : calls[r][j].table = t}} :
                     r \in Reqs}

\* a request failed after it had written two rows
C9_Witness ==
    \E r \in Reqs :
        /\ thrown[r] # NoError
        /\ response[r].status = 500
        /\ Cardinality(OkWriteIdx(r)) = 2
        /\ \A i \in OkWriteIdx(r) : Stored(calls[r][i])

\* C10: retryOperation invokes its operation at most maxRetries (3) times,
\* sleeps 1000 ms before the second invocation and 2000 ms before the third,
\* sleeps only after an invocation that threw a transient-named error, never
\* after the last one, and throws the error of its last invocation.
C10_RetryBounded ==
    \A r \in Reqs :
        /\ Len(calls[r]) <= 3
        /\ Len(waits[r]) <= 2
        /\ \A i \in 1..Len(waits[r]) :
              /\ waits[r][i] = 1000 * (2 ^ (i - 1))
              /\ calls[r][i].error.name \in {"SocketException", "TimeoutError"}
        /\ pc[r] = "retrying" => Len(waits[r]) = Len(calls[r])
        /\ pc[r] \in {"returned", "threw"} => Len(waits[r]) = Len(calls[r]) - 1
        /\ pc[r] = "returned" => (calls[r][Len(calls[r])].ok /\ thrown[r] = NoError)
        /\ pc[r] = "threw" =>
              /\ thrown[r] # NoError
              /\ thrown[r] = calls[r][Len(calls[r])].error
              /\ \/ Len(calls[r]) = 3
                 \/ thrown[r].name \notin {"SocketException", "TimeoutError"}

\* the operation threw transient errors three times: two sleeps, 1000 ms then
\* 2000 ms, and the third error thrown
C10_Witness ==
    \E r \in Reqs :
        /\ pc[r] = "threw"
        /\ Len(calls[r]) = 3
        /\ waits[r] = <<1000, 2000>>
        /\ thrown[r].name = "TimeoutError"

Transient(error) == error.name \in {"SocketException", "TimeoutError"}

\* the write at position i of the request's calls is a further attempt of
\* the write before it: the call before it is a failed write to the same key
Reattempt(r, i) ==
    /\ i > 1
    /\ IsWrite(calls[r][i - 1])
    /\ ~calls[r][i - 1].ok
    /\ calls[r][i - 1].kind = calls[r][i].kind

\* C11: a write that fails with an error that is not network/timeout-class
\* (refused credential, key conflict) is attempted once: it is not a further
\* attempt, nothing is called after it, no backoff wait has occurred, and the
\* request is answered at once with the failure (500, 'Operation failed',
\* the message of the error thrown).
C11_PermanentFailureNotRetried ==
    \A r \in Reqs : \A i \in WriteIdx(r) :
        (~calls[r][i].ok /\ ~Transient(calls[r][i].error)) =>
            /\ i = Len(calls[r])
            /\ ~Reattempt(r, i)
            /\ waits[r] = <<>>
            /\ attempt[r] = 0
            /\ pc[r] = "done"
            /\ thrown[r] # NoError
            /\ response[r].status = 500
            /\ response[r].error = "Operation failed"
            /\ response[r].message = thrown[r].message

\* under retryOperation a Customer upsert was refused for its credential
\* after the Deployment row was written, and the request was answered 500
C11_Witness ==
    \E r \in Reqs :
        /\ rev = "retry"
        /\ Len(calls[r]) = 2
        /\ calls[r][1].ok
        /\ calls[r][2].kind = "Customer"
        /\ calls[r][2].error = AuthError
        /\ response[r].status = 500

\* the failed writes at the end of the request's calls: the attempts of the
\* write the request failed on
FailedTail(r) ==
    {i \in WriteIdx(r) :
        \A j \in i..Len(calls[r]) :
            /\ IsWrite(calls[r][j]) /\ ~calls[r][j].ok
            /\ calls[r][j].kind = calls[r][Len(calls[r])].kind}

\* C12 (as claimed): under retryOperation, when the store call of a put fails
\* with a network/timeout-class error the handler attempts the same write
\* again, and a failure response is produced only after the third attempt
\* has failed too.
C12_Claim ==
    \A r \in Reqs :
        ( /\ rev = "retry"
          /\ pc[r] = "done"
          /\ thrown[r] # NoError
          /\ calls[r] # <<>>
          /\ Transient(calls[r][Len(calls[r])].error) )
        => /\ Cardinality(FailedTail(r)) = 3
           /\ waits[r] # <<>>

\* C13 (as claimed): under retryOperation, a Customer upsert whose store call
\* fails with a transient error on fewer than three attempts does not fail
\* the request: a request whose only failed store calls are one or two
\* transient failures of its Customer upsert ends 200 with results.customer
\* true and its Customer row stored.
C13_Claim ==
    \A r \in Reqs :
        LET failed == {i \in WriteIdx(r) : ~calls[r][i].ok} IN
        ( /\ rev = "retry"
          /\ pc[r] = "done"
          /\ Cardinality(failed) \in {1, 2}
          /\ \A i \in failed :
                calls[r][i].kind = "Customer" /\ Transient(calls[r][i].error) )
        => /\ response[r].status = 200
           /\ response[r].results.customer
           /\ Cardinality(OkWritesOf(r, "Customer")) = 1
           /\ Cardinality(RowsFor("Customers", body[r].customerId)) = 1

\* C14 (as claimed): under retryOperation, a request that failed on a write
\* whose store call failed with a transient error on every attempt is
\* answered with isRetryable true.
C14_Claim ==
    \A r \in Reqs :
        ( /\ rev = "retry"
          /\ pc[r] = "done"
          /\ thrown[r] # NoError
          /\ FailedTail(r) # {}
          /\ \A i \in FailedTail(r) : Transient(calls[r][i].error) )
        => response[r].isRetryable

\* C15 (as claimed): under retryOperation, a request that failed because a
\* store call timed out (code ETIMEDOUT) is answered 408, every other failed
\* request 500, both with error 'Operation failed' and the message.
C15_Claim ==
    \A r \in Reqs :
        ( /\ rev = "retry"
          /\ pc[r] = "done"
          /\ thrown[r] # NoError )
        => /\ response[r].error = "Operation failed"
           /\ response[r].message = thrown[r].message
           /\ response[r].status =
                 IF /\ calls[r] # <<>>
                    /\ calls[r][Len(calls[r])].error.code = "ETIMEDOUT"
                 THEN 408 ELSE 500

KeyPerTable(r, c) ==
    LET b == body[r] IN
    CASE c.kind = "Customer" -> <<b.customerId, b.customerId>>
      [] c.kind = "Environment" -> <<b.customerId, b.environmentId>>
      [] c.kind = "Deployment" ->
            <<b.customerId, ToString(c.at) \o "_" \o b.environmentId>>
      [] c.kind = "Resource" ->
            <<results[r].deployment, c.entity.resourceType \o "_" \o ToString(c.at)>>
      [] c.kind = "Endpoint" ->
            <<b.customerId, c.entity.serviceType \o "_" \o ToString(c.at)>>

\* C17 (as claimed): whatever the open attribute bags contain, the entity of
\* every write has the partition key and the row key that the key table
\* derives from the request's top-level customerId and environmentId, the
\* clock and the element's type.
C17_Claim ==
    \A r \in Reqs : \A i \in WriteIdx(r) :
        KeyOf(calls[r][i].entity) = KeyPerTable(r, calls[r][i])

HistoryTables == {"DeploymentHistory", "DeployedResources", "IntegrationEndpoints"}

\* C18: history is append-only.  No step removes a row from any of the five
\* tables, and no step changes a row that is present in DeploymentHistory,
\* DeployedResources or IntegrationEndpoints (a create that meets an
\* existing key fails and leaves the row as it was).
C18_AppendOnly ==
    [][ \A t \in TableNames :
            /\ DOMAIN store[t] \subseteq DOMAIN store'[t]
            /\ t \in HistoryTables =>
                  \A key \in DOMAIN store[t] : store'[t][key] = store[t][key] ]_vars

\* a create met the key of another request's history row that has other
\* content: it was refused, and the row is still what that request wrote
C18_Witness ==
    \E r \in Reqs : \E i \in WriteIdx(r) :
        LET c == calls[r][i] IN
        /\ c.table \in HistoryTables
        /\ c.error = ConflictError
        /\ KeyOf(c.entity) \in DOMAIN store[c.table]
        /\ store[c.table][KeyOf(c.entity)] # c.entity
        /\ \E q \in Reqs \ {r} : \E j \in OkWriteIdx(q) :
              store[c.table][KeyOf(c.entity)] = calls[q][j].entity

Statuses == {200, 400, 408, 500}

\* C19: every request terminates with exactly one response.  Each request
\* eventually is done; a request has a response exactly when it is done, with
\* status 200, 400, 408 or 500; a request that is done stays done and keeps its
\* response; and no put is ever at a fourth attempt.
C19_OneResponse ==
    /\ \A r \in Reqs : <>(pc[r] = "done")
    /\ [](\A r \in Reqs :
            /\ pc[r] = "done" <=> response[r] # NoResponse
            /\ pc[r] = "done" => response[r].status \in Statuses
            /\ attempt[r] < maxRetries)
    /\ [][ \A r \in Reqs :
              pc[r] = "done" => (pc'[r] = "done" /\ response'[r] = response[r]) ]_vars

\* both requests are done: one was answered from the catch after a store
\* failure that followed two writes, the other was turned away with 400
C19_Witness ==
    \E r \in Reqs, q \in Reqs :
        /\ pc[r] = "done" /\ pc[q] = "done"
        /\ thrown[r] # NoError /\ response[r].status = 500
        /\ Cardinality(OkWriteIdx(r)) = 2
        /\ response[q].status = 400

\* the request has got past the step of this kind
Past(r, kind) ==
    \/ response[r].status = 200
    \/ pc[r] \in (IF kind = "Customer" THEN {"environment"} ELSE {})
                   \cup {"resources", "endpoints"}

C21_Claim ==
    \A r \in Reqs :
        response[r].status = 200 =>
            /\ response[r].results.deployment # NullKey
            /\ Cardinality(OkWritesOf(r, "Deployment")) = 1
            /\ \A i \in OkWritesOf(r, "Deployment") :
                  /\ calls[r][i].entity.rowKey = response[r].results.deployment
                  /\ Stored(calls[r][i])
            /\ \A i \in WriteIdx(r) :
                  calls[r][i].kind = "Resource" =>
                      calls[r][i].entity.deploymentId = response[r].results.deployment

\* the attribute that names the type of a Resource or Endpoint element
TypeOf(c) == IF c.kind = "Resource" THEN c.entity.resourceType ELSE c.entity.serviceType

\* C22 (as claimed): two Resource writes of one request for elements of the
\* same resourceType (or two Endpoint writes for the same serviceType) that
\* are issued at the same clock value, none hit by a store fault, both
\* succeed, under distinct row keys; and the request does not fail on a
\* key conflict of such a write.
C22_Claim ==
    \A r \in Reqs :
        /\ \A i \in WriteIdx(r), j \in WriteIdx(r) :
              ( /\ i < j
                /\ calls[r][i].kind \in {"Resource", "Endpoint"}
                /\ calls[r][j].kind = calls[r][i].kind
                /\ TypeOf(calls[r][i]) = TypeOf(calls[r][j])
                /\ calls[r][i].at = calls[r][j].at
                /\ calls[r][i].error \notin StoreFaults
                /\ calls[r][j].error \notin StoreFaults )
              => /\ calls[r][i].ok /\ calls[r][j].ok
                 /\ KeyOf(calls[r][i].entity) # KeyOf(calls[r][j].entity)

\* the results a request has collected come from its own payload and its own
\* writes
OwnResults(r) ==
    LET res == results[r]
        b == body[r]
    IN  /\ res.deployment # NullKey =>
              \E i \in OkWritesOf(r, "Deployment") :
                  calls[r][i].entity.rowKey = res.deployment
        /\ res.customer = (OkWritesOf(r, "Customer") # {})
        /\ res.environment = (OkWritesOf(r, "Environment") # {})
        /\ Len(res.resources) <= Len(b.resources)
        /\ res.resources =
              TypesOf(SubSeq(b.resources, 1, Len(res.resources)), "resourceType")
        /\ Len(res.endpoints) <= Len(b.endpoints)
        /\ res.endpoints =
              TypesOf(SubSeq(b.endpoints, 1, Len(res.endpoints)), "serviceType")

\* C23 (as claimed): requests share no mutable state.  In every interleaving
\* of the two requests the results of each come from its own payload and
\* writes only, its response carries those results, and every Resource write
\* is tagged (partition key and deploymentId) with the deployment key of the
\* request that issued it.
C23_Claim ==
    \A r \in Reqs :
        /\ OwnResults(r)
        /\ response[r].status = 200 => response[r].results = results[r]
        /\ \A i \in WriteIdx(r) :
              calls[r][i].kind = "Resource" =>
                  /\ calls[r][i].entity.deploymentId = results[r].deployment
                  /\ calls[r][i].entity.partitionKey = results[r].deployment

\* C24 (as claimed): the Deployment row a request stored has deploymentType
\* equal to the request's top-level deploymentType when that is present and
\* "Initial" when it is absent.
C24_Claim ==
    \A r \in Reqs : \A i \in OkWritesOf(r, "Deployment") :
        /\ Stored(calls[r][i])
        /\ calls[r][i].entity.deploymentType =
              IF body[r].deploymentType = "" THEN "Initial" ELSE body[r].deploymentType

\* the provisioning call (createTable) on the table of write i that the put
\* of write i made: the nearest createTable before i, with no write between
Provisioned(r, i) ==
    {j \in 1..(i - 1) :
        /\ calls[r][j].op = "createTable"
        /\ calls[r][j].table = calls[r][i].table
        /\ \A k \in (j + 1)..(i - 1) : ~IsWrite(calls[r][k])}

\* C25 (as claimed): no entity write is issued before the helper has ensured
\* that the table exists: every write follows a createTable on its table,
\* by the same put, that succeeded or was answered 409; and a createTable
\* that failed otherwise ends the put, no write following it.
C25_Claim ==
    \A r \in Reqs :
        /\ \A i \in WriteIdx(r) :
              \E j \in Provisioned(r, i) :
                  calls[r][j].ok \/ calls[r][j].error.statusCode = "409"
        /\ \A j \in 1..Len(calls[r]) :
              ( /\ calls[r][j].op = "createTable"
                /\ ~calls[r][j].ok
                /\ calls[r][j].error.statusCode # "409" )
              => j = Len(calls[r])

\* C26 (as claimed): every entity in the store carries as timestamp the
\* clock instant at which its write was issued, whatever the payload's
\* attribute bags contain.
C26_Claim ==
    \A r \in Reqs : \A i \in OkWriteIdx(r) :
        /\ calls[r][i].entity.timestamp = Iso(calls[r][i].at)
        /\ \A t \in TableNames : \A key \in DOMAIN store[t] :
              \E q \in Reqs : \E j \in OkWriteIdx(q) :
                  /\ store[t][key] = calls[q][j].entity
                  /\ store[t][key].timestamp = Iso(calls[q][j].at)

RowsWritten(r, kind) ==
    {key \in DOMAIN store[TableOf[kind]] :
        \E i \in OkWritesOf(r, kind) : KeyOf(calls[r][i].entity) = key}

\* C28: result accumulation never runs ahead of the store.  At every point
\* of a request each type in results.resources (results.endpoints) is the
\* type of a write of this request that has succeeded and whose row is
\* stored; the list is as long as the successful writes are many, so at most
\* as long as the rows the request has written to the table are many; a
\* failed attempt adds nothing.
C28_ResultsFollowStore ==
    \A r \in Reqs :
        /\ Len(results[r].resources) = Cardinality(OkWritesOf(r, "Resource"))
        /\ Len(results[r].resources) <= Cardinality(RowsWritten(r, "Resource"))
        /\ \A k \in 1..Len(results[r].resources) :
              \E i \in OkWritesOf(r, "Resource") :
                  /\ calls[r][i].entity.resourceType = results[r].resources[k]
                  /\ Stored(calls[r][i])
        /\ Len(results[r].endpoints) = Cardinality(OkWritesOf(r, "Endpoint"))
        /\ Len(results[r].endpoints) <= Cardinality(RowsWritten(r, "Endpoint"))
        /\ \A k \in 1..Len(results[r].endpoints) :
              \E i \in OkWritesOf(r, "Endpoint") :
                  /\ calls[r][i].entity.serviceType = results[r].endpoints[k]
                  /\ Stored(calls[r][i])

\* the second of two Resource writes failed: one type collected, one row
C28_Witness ==
    \E r \in Reqs :
        /\ Len(body[r].resources) = 2
        /\ results[r].resources = <<body[r].resources[1].resourceType>>
        /\ Cardinality({i \in WriteIdx(r) : calls[r][i].kind = "Resource"}) = 2
        /\ Cardinality(RowsWritten(r, "Resource")) = 1
        /\ thrown[r] # NoError

\* how many records of a kind the payload asks for
RequestedOf(b, kind) ==
    CASE kind = "Deployment" -> 1
      [] kind = "Customer" -> Len(b.customerDetails)
      [] kind = "Environment" -> Len(b.environmentDetails)
      [] kind = "Resource" -> Len(b.resources)
      [] kind = "Endpoint" -> Len(b.endpoints)

\* C29: a 200 response is returned only when the Deployment write and every
\* write the payload asks for has succeeded: the request has no failed
\* write, it has as many successful writes of each kind as the payload asks
\* for, and the row of each of them is in the store.
C29_OkMeansAllWritten ==
    \A r \in Reqs :
        response[r].status = 200 =>
            /\ pc[r] = "done"
            /\ WriteIdx(r) = OkWriteIdx(r)
            /\ \A kind \in Kinds :
                  Cardinality(OkWritesOf(r, kind)) = RequestedOf(body[r], kind)
            /\ \A i \in OkWriteIdx(r) :
                  KeyOf(calls[r][i].entity) \in DOMAIN store[calls[r][i].table]

\* a request that asked for a Resource and an Endpoint was answered 200
C29_Witness ==
    \E r \in Reqs :
        /\ response[r].status = 200
        /\ Len(body[r].resources) = 1 /\ Len(body[r].endpoints) = 1
        /\ Cardinality(OkWriteIdx(r)) = 3

====
